---- MODULE Spec2Model ----
(***************************************************************************)
(* Model of the quicr wire-format core: MessageBuffer and its typed        *)
(* stream operators (src/src/message_buffer.cpp, quicr/message_buffer.h),  *)
(* and Name and Namespace (src/src/quicr_name.cpp).  Spec is the state     *)
(* machine of one MessageBuffer, NameSpec that of one Name.                *)
(*                                                                         *)
(* Representation.                                                         *)
(*  - A 64-bit unsigned integer is the set of its one-bit positions, a     *)
(*    subset of 0..63 (bit 0 is the least significant).  Shifts, masks,    *)
(*    casts and comparisons are computed on that set, width 64.            *)
(*  - A byte is a natural number in 0..255.                                *)
(*  - A std::vector<uint8_t> is kept run-length encoded: a sequence of     *)
(*    runs [b |-> byte, n |-> count], n >= 1, adjacent runs holding        *)
(*    different bytes.  Each byte sequence has exactly one such form, so   *)
(*    equality of forms is equality of byte sequences.                     *)
(*  - A call returns a record [buf, err, val]: the buffer after the call,  *)
(*    the exception thrown ("ok" when none) and the value produced.        *)
(***************************************************************************)
EXTENDS Integers, Sequences, FiniteSets, TLC

VARIABLES buffer, last, pending, steps, name, ncall, sourceCid_lum, tcall

vars == <<buffer, last, pending, steps, name, ncall, sourceCid_lum, tcall>>

-----------------------------------------------------------------------------
(* Bounds of the model                                                     *)

\* operations applied to one buffer in a run
MaxSteps == 3

\* operations applied to one Name in a run
MaxNameSteps == 1

-----------------------------------------------------------------------------
(* 64-bit unsigned integers as sets of bit positions                       *)

WordBits == 64

\* 2^16, the number of values of the uint16_t parameter of pop and front
Pow16 == 65536

U64Bits == 0 .. (WordBits - 1)

\* the bits of a natural number below 2^31
Bits(n) == { i \in 0..30 : (n \div (2^i)) % 2 = 1 }

RECURSIVE SumPow(_)
SumPow(S) == IF S = {} THEN 0
             ELSE LET i == CHOOSE x \in S : TRUE
                  IN  2^i + SumPow(S \ {i})

\* the natural number of a bit set within 0..30
ToNat(S) == SumPow(S)

\* x >> k
Shr(S, k) == { i - k : i \in { j \in S : j >= k } }

\* x << k, truncated to 64 bits
Shl(S, k) == { i + k : i \in { j \in S : j + k < WordBits } }

\* x & y,  x | y
And(S, T) == S \cap T

Or(S, T) == S \cup T

\* x < y, unsigned
Less(S, T) == \E i \in T \ S : \A j \in (S \cup T) : j > i => (j \in S <=> j \in T)

\* the carry into bit i of x + y: some lower bit generates a carry and
\* every bit between propagates it
Carry(S, T, i) ==
  \E j \in (S \cap T) :
    j < i /\ \A k \in (j + 1) .. (i - 1) : k \in S \/ k \in T

\* x + y modulo 2^64
Plus(S, T) ==
  { i \in U64Bits : ((i \in S) # (i \in T)) # Carry(S, T, i) }

\* uint8_t(x), uint16_t(x): conversion to a narrower unsigned type
Cast8(S) == ToNat(S \cap (0..7))

Cast16(S) == ToNat(S \cap (0..15))

\* size_t(n) for a container size
SizeT(n) == Bits(n)

-----------------------------------------------------------------------------
(* std::vector<uint8_t>, run-length encoded                                *)

Run(b, n) == [b |-> b, n |-> n]

RECURSIVE BLen(_)
BLen(v) == IF v = <<>> THEN 0 ELSE v[1].n + BLen(Tail(v))

\* push_back(b)
BPush(v, b) ==
  IF v # <<>> /\ v[Len(v)].b = b
  THEN [v EXCEPT ![Len(v)] = Run(b, v[Len(v)].n + 1)]
  ELSE Append(v, Run(b, 1))

\* insert(end(), w.begin(), w.end())
BCat(v, w) ==
  IF v = <<>> THEN w
  ELSE IF w = <<>> THEN v
  ELSE IF v[Len(v)].b = w[1].b
       THEN SubSeq(v, 1, Len(v) - 1) \o <<Run(w[1].b, v[Len(v)].n + w[1].n)>> \o Tail(w)
       ELSE v \o w

\* *begin()
BHead(v) == v[1].b

\* the first k bytes, k <= BLen(v)
RECURSIVE BTake(_, _)
BTake(v, k) ==
  IF k = 0 THEN <<>>
  ELSE IF v[1].n <= k THEN <<v[1]>> \o BTake(Tail(v), k - v[1].n)
  ELSE <<Run(v[1].b, k)>>

\* erase(begin(), begin() + k), k <= BLen(v)
RECURSIVE BDrop(_, _)
BDrop(v, k) ==
  IF k = 0 THEN v
  ELSE IF v[1].n <= k THEN BDrop(Tail(v), k - v[1].n)
  ELSE <<Run(v[1].b, v[1].n - k)>> \o Tail(v)

\* the i-th byte, 1 <= i <= BLen(v)
RECURSIVE BAt(_, _)
BAt(v, i) == IF i <= v[1].n THEN v[1].b ELSE BAt(Tail(v), i - v[1].n)

\* the vector of the bytes of a plain sequence
RECURSIVE BOf(_)
BOf(s) == IF s = <<>> THEN <<>> ELSE BCat(<<Run(s[1], 1)>>, BOf(Tail(s)))

\* n copies of byte b
BFill(b, n) == IF n = 0 THEN <<>> ELSE <<Run(b, n)>>


-----------------------------------------------------------------------------
(* Typed values and call results                                           *)

\* a typed value: n for uint8, w for uint64 and uintVar_t, v for a vector,
\* f for the fields of a message record
TV(type, n, w, v) == [type |-> type, n |-> n, w |-> w, v |-> v, f |-> <<>>]

None == TV("none", 0, {}, <<>>)

U8V(n) == TV("uint8", n, {}, <<>>)

U64V(w) == TV("uint64", 0, w, <<>>)

VarV(w) == TV("uintVar", 0, w, <<>>)

VecV(v) == TV("vector", 0, {}, v)

\* the uint16_t argument of pop and front
LenV(n) == TV("uint16", n, {}, <<>>)

\* normal return
Ret(buf, val) == [buf |-> buf, err |-> "ok", val |-> val]

\* an exception leaves the buffer as it is at the throw and assigns nothing
Throw(buf, err) == [buf |-> buf, err |-> err, val |-> None]

-----------------------------------------------------------------------------
(* to_varint / from_varint                                                 *)

\* static_cast<uintVar_t>(v); the assertion v < 2^61 holds at both callers
to_varint(v) == v

\* static_cast<uint64_t>(v)
from_varint(v) == v

-----------------------------------------------------------------------------
(* MessageBuffer members                                                   *)

empty(buf) == buf = <<>>

\* push(uint8_t)
push(buf, b) == BPush(buf, b)

\* push(const std::vector<uint8_t>&)
push_vec(buf, data) == BCat(buf, data)

\* front(): the first byte; the caller has checked !empty()
front(buf) == BHead(buf)

\* pop(): assert(!empty()), then erase(begin())
pop(buf) ==
  IF empty(buf) THEN Throw(buf, "assert") ELSE Ret(BDrop(buf, 1), None)

\* pop_n refusing to remove the whole contents
pop_n_OffByOne(buf, len) ==
  IF len >= BLen(buf) THEN Throw(buf, "out_of_range")
  ELSE Ret(BDrop(buf, len), None)

\* pop(uint16_t len)
pop_n(buf, len) ==
  IF len > BLen(buf) THEN Throw(buf, "out_of_range")
  ELSE Ret(BDrop(buf, len), None)

\* front_n removing the bytes it returns
front_n_Consuming(buf, len) ==
  IF len > BLen(buf) THEN Throw(buf, "out_of_range")
  ELSE Ret(BDrop(buf, len), VecV(BTake(buf, len)))

\* front(uint16_t len)
front_n(buf, len) ==
  IF len > BLen(buf) THEN Throw(buf, "out_of_range")
  ELSE Ret(buf, VecV(BTake(buf, len)))

-----------------------------------------------------------------------------
(* operator<< : append                                                     *)

\* operator<<(MessageBuffer&, uint8_t)
Write_uint8(buf, val) == Ret(push(buf, val), None)

\* the byte uint8_t((val >> k) & 0xFF)
ByteAt(val, k) == Cast8(And(Shr(val, k), Bits(255)))

\* Write_uint64 with the least significant byte first
Write_uint64_LowFirst(buf, val) ==
  LET b1 == push(buf, ByteAt(val, 0))
      b2 == push(b1, ByteAt(val, 8))
      b3 == push(b2, ByteAt(val, 16))
      b4 == push(b3, ByteAt(val, 24))
      b5 == push(b4, ByteAt(val, 32))
      b6 == push(b5, ByteAt(val, 40))
      b7 == push(b6, ByteAt(val, 48))
      b8 == push(b7, ByteAt(val, 56))
  IN  Ret(b8, None)

\* operator<<(MessageBuffer&, const uint64_t&)
Write_uint64(buf, val) ==
  LET b1 == push(buf, ByteAt(val, 56))
      b2 == push(b1, ByteAt(val, 48))
      b3 == push(b2, ByteAt(val, 40))
      b4 == push(b3, ByteAt(val, 32))
      b5 == push(b4, ByteAt(val, 24))
      b6 == push(b5, ByteAt(val, 16))
      b7 == push(b6, ByteAt(val, 8))
      b8 == push(b7, ByteAt(val, 0))
  IN  Ret(b8, None)

\* TooLarge with the limit one bit too high
TooLarge_Limit62(val) == ~Less(val, Shl(Bits(1), 62))

\* val >= ((uint64_t)1 << 61)
TooLarge(val) == ~Less(val, Shl(Bits(1), 61))

\* operator<<(MessageBuffer&, const uintVar_t&)
Write_uintVar(buf, v) ==
  LET val == from_varint(v)
      One == Bits(1)
  IN
  IF TooLarge(val) THEN Throw(buf, "magnitude")
  ELSE IF Less(val, Shl(One, 7))
  THEN Ret(push(buf, Cast8(Or(And(Shr(val, 0), Bits(127)), Bits(0)))), None)
  ELSE IF Less(val, Shl(One, 14))
  THEN LET b1 == push(buf, Cast8(Or(And(Shr(val, 8), Bits(63)), Bits(128))))
           b2 == push(b1, ByteAt(val, 0))
       IN  Ret(b2, None)
  ELSE IF Less(val, Shl(One, 29))
  THEN LET b1 == push(buf, Cast8(Or(And(Shr(val, 24), Bits(31)), Bits(128 + 64))))
           b2 == push(b1, ByteAt(val, 16))
           b3 == push(b2, ByteAt(val, 8))
           b4 == push(b3, ByteAt(val, 0))
       IN  Ret(b4, None)
  ELSE LET b1 == push(buf, Cast8(Or(And(Shr(val, 56), Bits(15)), Bits(128 + 64 + 32))))
           b2 == push(b1, ByteAt(val, 48))
           b3 == push(b2, ByteAt(val, 40))
           b4 == push(b3, ByteAt(val, 32))
           b5 == push(b4, ByteAt(val, 24))
           b6 == push(b5, ByteAt(val, 16))
           b7 == push(b6, ByteAt(val, 8))
           b8 == push(b7, ByteAt(val, 0))
       IN  Ret(b8, None)

\* msg.push(val) once the length prefix is written
PushAfter(r, val) ==
  IF r.err # "ok" THEN r ELSE Ret(push_vec(r.buf, val), None)

\* operator<<(MessageBuffer&, const std::vector<uint8_t>&)
Write_vector(buf, val) ==
  PushAfter(Write_uintVar(buf, to_varint(SizeT(BLen(val)))), val)

-----------------------------------------------------------------------------
(* operator>> : extract                                                    *)

\* operator>>(MessageBuffer&, uint8_t&)
Read_uint8(buf) ==
  IF empty(buf) THEN Throw(buf, "empty")
  ELSE Ret(pop(buf).buf, U8V(front(buf)))

\* ReadBytes leaving the bytes it cannot read at their initial zero
ReadBytes_ZeroFill(buf, k, acc) ==
  IF BLen(buf) >= k
  THEN [buf |-> BDrop(buf, k), err |-> "ok",
        bytes |-> acc \o [i \in 1..k |-> BAt(buf, i)]]
  ELSE [buf |-> <<>>, err |-> "ok",
        bytes |-> acc \o [i \in 1..k |-> IF i <= BLen(buf) THEN BAt(buf, i) ELSE 0]]

\* k successive msg >> byte[..]; bytes are kept in the order read, and the
\* exception of a read ends the sequence
RECURSIVE ReadBytes(_, _, _), ReadMore(_, _, _)
ReadBytes(buf, k, acc) ==
  IF k = 0 THEN [buf |-> buf, err |-> "ok", bytes |-> acc]
  ELSE ReadMore(Read_uint8(buf), k, acc)

\* the reads after the read with result r
ReadMore(r, k, acc) ==
  IF r.err # "ok" THEN [buf |-> r.buf, err |-> r.err, bytes |-> acc]
  ELSE ReadBytes(r.buf, k - 1, Append(acc, r.val.n))

\* (uint64_t(b) & mask) << k
Term(b, mask, k) == Shl(And(Bits(b), Bits(mask)), k)

\* the sum of the bytes read, each shifted to its place; the first byte
\* read is the most significant and is masked
Sum1(b, mask) == Term(b[1], mask, 0)

Sum2(b, mask) == Plus(Term(b[1], mask, 8), Term(b[2], 255, 0))

Sum4(b, mask) ==
  Plus(Plus(Plus(Term(b[1], mask, 24), Term(b[2], 255, 16)),
            Term(b[3], 255, 8)), Term(b[4], 255, 0))

\* written in the order of the uint64_t extraction, low byte first
Sum8Low(b, mask) ==
  Plus(Plus(Plus(Plus(Plus(Plus(Plus(
    Term(b[8], 255, 0), Term(b[7], 255, 8)),
    Term(b[6], 255, 16)), Term(b[5], 255, 24)),
    Term(b[4], 255, 32)), Term(b[3], 255, 40)),
    Term(b[2], 255, 48)), Term(b[1], mask, 56))

\* written in the order of the uintVar_t extraction, high byte first
Sum8High(b, mask) ==
  Plus(Plus(Plus(Plus(Plus(Plus(Plus(
    Term(b[1], mask, 56), Term(b[2], 255, 48)),
    Term(b[3], 255, 40)), Term(b[4], 255, 32)),
    Term(b[5], 255, 24)), Term(b[6], 255, 16)),
    Term(b[7], 255, 8)), Term(b[8], 255, 0))

\* val = ...; return msg, after the reads with result r
Assemble64(r) ==
  IF r.err # "ok" THEN Throw(r.buf, r.err)
  ELSE Ret(r.buf, U64V(Sum8Low(r.bytes, 255)))

\* operator>>(MessageBuffer&, uint64_t&): byte[7] is read first
Read_uint64(buf) == Assemble64(ReadBytes(buf, 8, <<>>))

\* v = to_varint(val); return msg, in each of the four branches
VarInt1(r) ==
  IF r.err # "ok" THEN Throw(r.buf, r.err)
  ELSE Ret(r.buf, VarV(to_varint(Sum1(r.bytes, 127))))

VarInt2(r) ==
  IF r.err # "ok" THEN Throw(r.buf, r.err)
  ELSE Ret(r.buf, VarV(to_varint(Sum2(r.bytes, 63))))

VarInt4(r) ==
  IF r.err # "ok" THEN Throw(r.buf, r.err)
  ELSE Ret(r.buf, VarV(to_varint(Sum4(r.bytes, 31))))

VarInt8(r) ==
  IF r.err # "ok" THEN Throw(r.buf, r.err)
  ELSE Ret(r.buf, VarV(to_varint(Sum8High(r.bytes, 15))))

\* operator>>(MessageBuffer&, uintVar_t&); first is what msg.front() returned
Read_uintVar(buf, first) ==
  IF And(Bits(first), Bits(128)) = {}
  THEN VarInt1(ReadBytes(buf, 1, <<>>))
  ELSE IF And(Bits(first), Bits(128 + 64)) = Bits(128)
  THEN VarInt2(ReadBytes(buf, 2, <<>>))
  ELSE IF And(Bits(first), Bits(128 + 64 + 32)) = Bits(128 + 64)
  THEN VarInt4(ReadBytes(buf, 4, <<>>))
  ELSE VarInt8(ReadBytes(buf, 8, <<>>))

\* ZeroSize with the check left out
ZeroSize_Never(len) == FALSE

\* len == 0
ZeroSize(len) == len = {}

\* FrontPop emptying the buffer when front or pop throws
FrontPop_Clearing(buf, len) ==
  IF front_n(buf, len).err # "ok" THEN Throw(<<>>, front_n(buf, len).err)
  ELSE IF pop_n(buf, len).err # "ok" THEN Throw(<<>>, pop_n(buf, len).err)
  ELSE Ret(pop_n(buf, len).buf, front_n(buf, len).val)

\* val = msg.front(len); msg.pop(len); both take len as uint16_t
FrontPop(buf, len) ==
  IF front_n(buf, len).err # "ok" THEN Throw(buf, front_n(buf, len).err)
  ELSE IF pop_n(buf, len).err # "ok" THEN Throw(buf, pop_n(buf, len).err)
  ELSE Ret(pop_n(buf, len).buf, front_n(buf, len).val)

\* the statements after msg >> vecSize, whose result is r
TakeVector(r) ==
  IF r.err # "ok" THEN Throw(r.buf, r.err)
  ELSE IF ZeroSize(from_varint(r.val.w)) THEN Throw(r.buf, "zero_size")
  ELSE FrontPop(r.buf, Cast16(from_varint(r.val.w)))

\* operator>>(MessageBuffer&, std::vector<uint8_t>&)
Read_vector(buf, first) == TakeVector(Read_uintVar(buf, first))

-----------------------------------------------------------------------------
(* Protocol messages: a record is written field by field with the          *)
(* operator<< of each field's type, and read back in the same order with   *)
(* operator>>, stopping at the first field that fails.                     *)

\* a message record of the given kind with its fields in declaration order
MsgV(kind, fields) == [TV(kind, 0, {}, <<>>) EXCEPT !.f = fields]

\* the field types of each kind of record
MessageFields ==
  [ SubscribeEnd          |-> <<"uint8", "uintVar", "vector">>,
    PublishIntentResponse |-> <<"uint8", "uint8", "uint64">>,
    PublishStream         |-> <<"uintVar", "vector">>,
    PublishIntentEnd      |-> <<"uint8", "uintVar", "vector", "vector">> ]

MessageKinds == DOMAIN MessageFields

\* msg << field
WriteField(buf, x) ==
  IF x.type = "uint8" THEN Write_uint8(buf, x.n)
  ELSE IF x.type = "uint64" THEN Write_uint64(buf, x.w)
  ELSE IF x.type = "uintVar" THEN Write_uintVar(buf, x.w)
  ELSE Write_vector(buf, x.v)

\* msg >> field; the buffer is not empty when a field is read here
ReadField(buf, type) ==
  IF type = "uint8" THEN Read_uint8(buf)
  ELSE IF type = "uint64" THEN Read_uint64(buf)
  ELSE IF type = "uintVar" THEN Read_uintVar(buf, front(buf))
  ELSE Read_vector(buf, front(buf))

\* operator<<(MessageBuffer&, const Message&)
RECURSIVE WriteFields(_, _), WriteMore(_, _)
WriteFields(buf, fields) ==
  IF fields = <<>> THEN Ret(buf, None)
  ELSE WriteMore(WriteField(buf, Head(fields)), Tail(fields))

\* the fields after the field written with result r
WriteMore(r, fields) ==
  IF r.err # "ok" THEN r ELSE WriteFields(r.buf, fields)

Write_message(buf, m) == WriteFields(buf, m.f)

\* operator>>(MessageBuffer&, Message&)
RECURSIVE ReadFields(_, _, _), ReadMoreFields(_, _, _)
ReadFields(buf, types, acc) ==
  IF types = <<>> THEN [buf |-> buf, err |-> "ok", fields |-> acc]
  ELSE IF empty(buf) THEN [buf |-> buf, err |-> "empty", fields |-> acc]
  ELSE ReadMoreFields(ReadField(buf, Head(types)), Tail(types), acc)

\* the fields after the field read with result r
ReadMoreFields(r, types, acc) ==
  IF r.err # "ok" THEN [buf |-> r.buf, err |-> r.err, fields |-> acc]
  ELSE ReadFields(r.buf, types, Append(acc, r.val))

\* the record of the fields read, or the exception of the field that failed
MessageOf(r, kind) ==
  IF r.err # "ok" THEN Throw(r.buf, r.err)
  ELSE Ret(r.buf, MsgV(kind, r.fields))

Read_message(buf, kind) ==
  MessageOf(ReadFields(buf, MessageFields[kind], <<>>), kind)

-----------------------------------------------------------------------------
(* Name (src/src/quicr_name.cpp): two uint64_t members _hi and _low.  The   *)
(* std::bitset<128> the operators compute on is the set of its one-bit     *)
(* positions, a subset of 0..127.  A member call yields [self, ret]: the   *)
(* object after the call and the Name returned.                            *)

NameBits == 128

NameOf(hi, low) == [hi |-> hi, low |-> low]

\* Name::Name(uint64_t value) : _hi{0}, _low{value}
Name_uint64(value) == NameOf({}, value)

\* Name::Name(const std::string& hex_value): the body is empty, so nothing
\* is thrown and _hi and _low keep what their storage held
Name_string(hex_value, stale) == [err |-> "ok", self |-> stale]

\* bitset_t operator<<, operator>>
BitsetShl(bits, k) == { i + k : i \in { j \in bits : j + k < NameBits } }

BitsetShr(bits, k) == { i - k : i \in { j \in bits : j >= k } }

\* bitset_divider(std::numeric_limits<uint64_t>::max())
bitset_divider == U64Bits

make_bitset(low, hi) == Or(low, BitsetShl(hi, WordBits))

\* the pair {a, b}: a from the low 64 bits, b from bits >> 64; the callers
\* tie a to _low and b to _hi
split_bitset(bits) ==
  NameOf(And(BitsetShr(bits, WordBits), bitset_divider), And(bits, bitset_divider))

\* the members are assigned to and *this is returned: the object after the
\* call and the Name returned are the same value n
Self(n) == [self |-> n, ret |-> n]

\* Name::operator>>(uint16_t value): the result of bits >> value is not
\* stored, bits is split as it was made
Name_shr(n, value) == Self(split_bitset(make_bitset(n.low, n.hi)))

\* Name::operator<<(uint16_t value): likewise with bits << value
Name_shl(n, value) == Self(split_bitset(make_bitset(n.low, n.hi)))

\* the state of the loop: the position, the carry or borrow, the result
LoopState(i, carry, result) == [i |-> i, carry |-> carry, result |-> result]

\* result[i] = full_adder(x[i], y[i], carry)
full_adder(a, b, st) ==
  LoopState(st.i + 1,
            (a /\ b) \/ (a /\ st.carry) \/ (b /\ st.carry),
            IF (a # b) # st.carry THEN st.result \cup {st.i} ELSE st.result)

\* for (size_t i = 0; i < x.size(); ++i)
RECURSIVE AddLoop(_, _, _)
AddLoop(x, y, st) ==
  IF st.i = NameBits THEN st.result
  ELSE AddLoop(x, y, full_adder(st.i \in x, st.i \in y, st))

\* add_bitset losing the carry out of the low word
add_bitset_CarryLost(x, y) ==
  Or(Plus(And(x, U64Bits), And(y, U64Bits)), x \ U64Bits)

add_bitset(x, y) == AddLoop(x, y, LoopState(0, FALSE, {}))

\* result[i] = full_subtractor(x[i], y[i], carry)
full_subtractor(a, b, st) ==
  IF st.carry
  THEN LoopState(st.i + 1, (~a) \/ (a /\ b),
                 IF ~(a # b) THEN st.result \cup {st.i} ELSE st.result)
  ELSE LoopState(st.i + 1, (~a) /\ b,
                 IF a # b THEN st.result \cup {st.i} ELSE st.result)

RECURSIVE SubLoop(_, _, _)
SubLoop(x, y, st) ==
  IF st.i = NameBits THEN st.result
  ELSE SubLoop(x, y, full_subtractor(st.i \in x, st.i \in y, st))

sub_bitset(x, y) == SubLoop(x, y, LoopState(0, FALSE, {}))

\* Name::operator+(uint64_t value), Name::operator-(uint64_t value)
Name_plus(n, value) ==
  Self(split_bitset(add_bitset(make_bitset(n.low, n.hi), value)))

Name_minus(n, value) ==
  Self(split_bitset(sub_bitset(make_bitset(n.low, n.hi), value)))

\* Name::operator&(uint64_t), Name::operator|(uint64_t): _low only
Name_and64(n, value) == Self(NameOf(n.hi, And(n.low, value)))

Name_or64(n, value) == Self(NameOf(n.hi, Or(n.low, value)))

\* Name::operator&(const Name&), Name::operator|(const Name&)
Name_and(n, other) ==
  Self(NameOf(And(n.hi, other.hi), And(n.low, other.low)))

\* operator| touching _low only, as the 64-bit overload does
Name_or_LowOnly(n, other) == Self(NameOf(n.hi, Or(n.low, other.low)))

Name_or(n, other) ==
  Self(NameOf(Or(n.hi, other.hi), Or(n.low, other.low)))

\* x ^ y
Xor(S, T) == (S \ T) \cup (T \ S)

\* operator==: !(a._hi ^ b._hi | a._low ^ b._low)
Name_eq(a, b) == Or(Xor(a.hi, b.hi), Xor(a.low, b.low)) = {}

\* operator!=
Name_ne(a, b) == ~Name_eq(a, b)

\* operator< of two std::tie pairs of uint64_t
TieLess(p, q) == Less(p[1], q[1]) \/ (~Less(q[1], p[1]) /\ Less(p[2], q[2]))

\* operator>: std::tie(a._hi, a._low) > std::tie(b._hi, b._low)
Name_gt(a, b) == TieLess(<<b.hi, b.low>>, <<a.hi, a.low>>)

\* operator<: std::tie(a._hi, b._low) < std::tie(b._hi, b._low)
Name_lt(a, b) == TieLess(<<a.hi, b.low>>, <<b.hi, b.low>>)

\* make_bytes(v): result[i] = static_cast<uint8_t>(v >> 8 * i)
make_bytes(v) ==
  [i \in 1..8 |-> ToNat({ b - 8 * (i - 1) : b \in { c \in v : c \div 8 = i - 1 } })]

\* Name::data(): the bytes of _hi, then the bytes of _low
Name_data(n) == make_bytes(n.hi) \o make_bytes(n.low)

\* data[i] << k converted to uint64_t for |=. data[i] is promoted to a
\* 32-bit int: the result is sign-extended, and a shift by 32 or more is
\* undefined: ub chooses the count taken modulo 32 or a result of zero
IntShl(b, k, ub) ==
  LET shifted == IF k < 32 THEN { i + k : i \in Bits(b) }
                 ELSE IF ub = "masked" THEN { i + (k % 32) : i \in Bits(b) }
                 ELSE {}
      int == { i \in shifted : i < 32 }
  IN  IF 31 \in int THEN int \cup (32 .. (WordBits - 1)) ELSE int

\* Name::Name(const std::vector<uint8_t>& data): no member initialiser, so
\* the bytes are or-ed into what the storage held; both loops shift by 8 * i
Name_vector(data, stale, ub) ==
  [err  |-> "ok",
   self |-> NameOf(
     Or(stale.hi, UNION { IntShl(data[i + 1], 8 * i, ub) :
                            i \in 8 .. (Len(data) - 1) }),
     Or(stale.low, UNION { IntShl(data[i + 1], 8 * i, ub) :
                             i \in { j \in 0 .. (Len(data) - 1) : j < 8 } }))]

\* setfill('0') << setw(16) << std::hex << w: the 16 digits of a 64-bit
\* word, most significant first, in the lowercase digits std::hex writes
HexField(w) ==
  LET digit == <<"0", "1", "2", "3", "4", "5", "6", "7",
                 "8", "9", "a", "b", "c", "d", "e", "f">>
  IN  [i \in 1..16 |->
         digit[ToNat({ b - 4 * (16 - i) : b \in { c \in w : c \div 4 = 16 - i } }) + 1]]

\* Name::to_hex() writing the low word before the high word
Name_to_hex_LowFirst(n) == <<"0", "x">> \o HexField(n.low) \o HexField(n.hi)

\* Name::to_hex(): "0x", then _hi, then _low
Name_to_hex(n) == <<"0", "x">> \o HexField(n.hi) \o HexField(n.low)

\* Namespace(const Name& name, uint16_t sig_bits)
NamespaceOf(n, sig_bits) == [name |-> n, sig_bits |-> sig_bits]

\* max_uint_type_bit_size - _sig_bits in size_t, passed on as uint16_t
InsigBits(sig_bits) == (NameBits - sig_bits) % Pow16

\* Namespace::contains(const Name& name)
Namespace_contains(ns, n) ==
  Name_eq(Name_shr(n, InsigBits(ns.sig_bits)).ret,
          Name_shr(ns.name, InsigBits(ns.sig_bits)).ret)

\* Namespace::contains(const Namespace&) asking for as many significant bits
Namespace_contains_ns_SigChecked(ns, name_space) ==
  name_space.sig_bits >= ns.sig_bits /\ Namespace_contains(ns, name_space.name)

\* Namespace::contains(const Namespace& name_space)
Namespace_contains_ns(ns, name_space) == Namespace_contains(ns, name_space.name)

\* operator==, !=, >, < of two Namespaces
Namespace_eq(a, b) == Name_eq(a.name, b.name) /\ a.sig_bits = b.sig_bits

Namespace_ne(a, b) == ~Namespace_eq(a, b)

Namespace_gt(a, b) == Name_gt(a.name, b.name)

Namespace_lt(a, b) == Name_lt(a.name, b.name)

-----------------------------------------------------------------------------
(* Inputs                                                                  *)

\* the 64-bit value of 8 bytes, most significant first
FromBE(b) ==
  UNION { Shl(Bits(b[i]), 8 * (8 - i)) : i \in 1..8 }

\* 2^k and 2^k - 1
PowerOf2(k) == {k}

Ones(k) == 0 .. (k - 1)

\* the exponents around the byte, tier and word boundaries
Exponents ==
  { 0, 1, 6, 7, 8, 13, 14, 15, 16, 23, 24, 28, 29, 30, 31, 32, 33,
    47, 48, 55, 56, 59, 60, 61, 62, 63, 64 }

\* 64-bit values: 2^k and 2^k - 1 at those exponents, and mixed patterns
WideU64 ==
  { PowerOf2(k) : k \in Exponents \ {64} } \cup { Ones(k) : k \in Exponents } \cup
  { FromBE(<<1, 35, 69, 103, 137, 171, 205, 239>>),
    FromBE(<<14, 220, 186, 152, 118, 84, 50, 16>>),
    FromBE(<<30, 220, 186, 152, 118, 84, 50, 16>>),
    FromBE(<<0, 0, 0, 0, 18, 52, 86, 120>>),
    FromBE(<<0, 0, 0, 0, 0, 0, 18, 52>>) }

\* the values appended behind bytes already present
NarrowU64 ==
  { Bits(5), Bits(4096), PowerOf2(60), PowerOf2(61), Ones(64),
    FromBE(<<1, 35, 69, 103, 137, 171, 205, 239>>) }

SampleU8 == {0, 1, 127, 128, 255}

\* vectors to append: empty, short, and around 2^16 bytes
SampleVectors ==
  { <<>>, BOf(<<5>>), BOf(<<1, 2, 3>>), BOf(<<0, 255, 0, 255, 7>>),
    BFill(9, 127), BFill(9, 128), BCat(BOf(<<1, 2>>), BFill(9, 300)),
    BFill(7, Pow16 - 1), BFill(7, Pow16), BCat(BOf(<<1, 2>>), BFill(7, Pow16)) }

\* byte sequences a MessageBuffer is constructed from
Received ==
  { <<>>,
    BOf(<<0, 5>>), BOf(<<128, 0, 5>>), BOf(<<192, 0, 0, 0, 5>>),
    BOf(<<224, 0, 0, 0, 0, 0, 0, 0, 5>>), BOf(<<240, 0, 0, 0, 0, 0, 0, 0>>),
    BOf(<<128>>), BOf(<<192, 1, 2>>), BOf(<<224, 1, 2, 3, 4, 5, 6>>),
    BOf(<<2, 10, 20, 30>>), BOf(<<3, 1, 2>>), BOf(<<64, 1, 2>>),
    BOf(<<192, 1, 0, 0, 9>>), BOf(<<192, 1, 0, 1, 9, 8>>),
    BCat(BOf(<<192, 1, 0, 1, 1, 2>>), BFill(7, Pow16 + 3)),
    BCat(BOf(<<192, 1, 0, 0>>), BFill(7, Pow16)),
    BCat(BOf(<<128, 200, 1, 2>>), BFill(7, 200)) }

\* payloads and identifiers of the sample messages
SamplePayloads == { <<>>, BOf(<<1, 2, 3, 4, 5>>) }

SampleIds == { Bits(0), Bits(5), Bits(4096) }

SampleMessages ==
  { MsgV("SubscribeEnd", <<U8V(0), VarV(id), VecV(p)>>) :
      id \in SampleIds, p \in SamplePayloads } \cup
  { MsgV("PublishIntentResponse", <<U8V(t), U8V(1), U64V(Bits(4096))>>) :
      t \in {0, 3} } \cup
  { MsgV("PublishStream", <<VarV(SizeT(BLen(p))), VecV(p)>>) :
      p \in SamplePayloads } \cup
  { MsgV("PublishIntentEnd", <<U8V(3), VarV(Bits(5)), VecV(BOf(<<49, 50, 51, 52, 53>>)), VecV(p)>>) :
      p \in SamplePayloads }

\* what msg.front() may yield on an empty vector: some byte, or a fault
GarbageBytes == {0, 224}

\* lengths passed to pop and front: none, a few bytes, the largest uint16_t
SampleLens == {0, 1, 3, 8, Pow16 - 1}

\* uint64_t arguments of the Name constructor: 0, 1, 0x42, 0x123, 0x124,
\* 0x1234, 2^63, 2^64 - 1, 0x1010101010101010
SampleWords ==
  { {}, Bits(1), Bits(66), Bits(291), Bits(292), Bits(4660), PowerOf2(63),
    Ones(64), FromBE(<<16, 16, 16, 16, 16, 16, 16, 16>>) }

\* uint64_t operands of +, -, & and |: 0, 1, 2^63, 2^64 - 1,
\* 0x1010101010101010
SampleOperands ==
  { {}, Bits(1), PowerOf2(63), Ones(64), FromBE(<<16, 16, 16, 16, 16, 16, 16, 16>>) }

\* Names as operands: those of the 64-bit constructor, and values with a
\* high word as arithmetic and the bitwise operators leave them
SampleNames ==
  { Name_uint64(w) : w \in {{}, Bits(66), Bits(291), Bits(292), Ones(64)} } \cup
  { NameOf(Bits(1), {}),
    NameOf(Ones(60), Ones(64)),
    NameOf(Ones(64), Ones(64)),
    NameOf(Bits(1), Bits(2)),
    NameOf(Bits(2), Bits(1)),
    NameOf(FromBE(<<1, 35, 69, 103, 137, 171, 205, 239>>),
           FromBE(<<1, 35, 69, 103, 137, 171, 205, 239>>)),
    NameOf(FromBE(<<17, 17, 17, 17, 17, 17, 17, 17>>),
           FromBE(<<34, 34, 34, 34, 34, 34, 34, 0>>)),
    NameOf(FromBE(<<17, 17, 17, 17, 17, 17, 17, 17>>),
           FromBE(<<34, 34, 34, 34, 34, 34, 34, 255>>)),
    NameOf(FromBE(<<17, 17, 17, 17, 17, 17, 17, 17>>),
           FromBE(<<34, 34, 34, 34, 34, 34, 35, 0>>)) }

\* bases of Namespace arguments: the Names of the Namespace tests
SampleBases == { n \in SampleNames : n.hi = FromBE(<<17, 17, 17, 17, 17, 17, 17, 17>>) }

\* shift amounts and significant-bit counts
SampleShifts == {0, 1, 4, 64, 127, 128}

SampleSigBits == {0, 64, 120, 128}

\* byte sequences handed to the vector constructor: none, one byte, three
\* bytes, a fourth byte with its top bit set, eight, nine and sixteen bytes
SampleBytes ==
  { <<>>, <<1>>, <<1, 2, 3>>, <<0, 0, 0, 128>>, <<1, 2, 3, 4, 5, 6, 7, 8>>,
    <<0, 0, 0, 0, 0, 0, 0, 0, 1>>,
    <<1, 2, 3, 4, 5, 6, 7, 8, 9, 10, 11, 12, 13, 14, 15, 16>> }

\* n times the character c
Chars(c, n) == [i \in 1..n |-> c]

\* texts handed to the string constructor, one character per element
SampleTexts ==
  { <<"0", "x", "4", "2">>, <<"4", "2">>, <<"0", "x", "1", "2", "3">>, <<>>,
    <<"0", "x">> \o Chars("F", 32), Chars("f", 32),
    <<"0", "x">> \o Chars("F", 33), <<"0", "x">> \o Chars("F", 31),
    <<"0", "x">> \o Chars("Z", 32) }

-----------------------------------------------------------------------------
(* State machine                                                           *)

\* the record of the most recent call
Call(op, arg, pre, r, expect) ==
  [op |-> op, arg |-> arg, pre |-> pre, err |-> r.err, val |-> r.val,
   expect |-> expect]

\* the arguments of a Name call: a 64-bit value, an amount, a Name, a text
Args(w, k, other, text) == [w |-> w, k |-> k, other |-> other, text |-> text]

\* the results of the comparisons and of contains
Flags(eq, ne, lt, gt, has) == [eq |-> eq, ne |-> ne, lt |-> lt, gt |-> gt, has |-> has]

NoFlags == Flags(FALSE, FALSE, FALSE, FALSE, FALSE)

\* the record of the most recent call on the Name; hex is the text a call
\* returned, bytes the bytes it took or returned, sig the sig_bits of a
\* Namespace argument
NameCall(op, pre, args, ret, flags, err) ==
  [op |-> op, pre |-> pre, w |-> args.w, k |-> args.k, other |-> args.other,
   text |-> args.text, ret |-> ret, flags |-> flags, err |-> err,
   hex |-> <<>>, bytes |-> <<>>, sig |-> 0]

NoCall ==
  NameCall("none", NameOf({}, {}), Args({}, 0, NameOf({}, {}), <<>>),
           NameOf({}, {}), NoFlags, "ok")

\* the record of the most recent call on the transport
TransportCall(op, sCid, ret) == [op |-> op, sCid |-> sCid, ret |-> ret]

NoTransportCall == TransportCall("none", 0, FALSE)

Init ==
  /\ buffer \in Received
  /\ last = Call("construct", None, <<>>, Ret(buffer, None), None)
  /\ pending = None
  /\ steps = 0
  /\ name = Name_uint64({})
  /\ ncall = NoCall
  /\ sourceCid_lum = {}
  /\ tcall = NoTransportCall

\* the process is running and the run may go on
CanStep == steps < MaxSteps /\ last.err \notin {"crash", "assert"}

\* a value is appended as the first operation on the buffer
CanAppend == CanStep /\ steps = 0

\* an append: pending is the value when it went into an empty buffer
DoAppend(op, arg, r) ==
  /\ buffer' = r.buf
  /\ last' = Call(op, arg, buffer, r, None)
  /\ pending' = IF empty(buffer) /\ r.err = "ok" THEN arg ELSE None
  /\ steps' = steps + 1
  /\ UNCHANGED <<name, ncall, sourceCid_lum, tcall>>

\* an extraction: expect is the pending value when the types agree
DoExtract(op, type, r) ==
  /\ buffer' = r.buf
  /\ last' = Call(op, None, buffer, r,
                  IF pending.type = type THEN pending ELSE None)
  /\ pending' = None
  /\ steps' = steps + 1
  /\ UNCHANGED <<name, ncall, sourceCid_lum, tcall>>

Append_uint8 ==
  /\ CanAppend
  /\ \E v \in (IF empty(buffer) THEN SampleU8 ELSE {0, 255}) :
       DoAppend("Write_uint8", U8V(v), Write_uint8(buffer, v))

Append_uint64 ==
  /\ CanAppend
  /\ \E v \in (IF empty(buffer) THEN WideU64 ELSE NarrowU64) :
       DoAppend("Write_uint64", U64V(v), Write_uint64(buffer, v))

Append_uintVar ==
  /\ CanAppend
  /\ \E v \in (IF empty(buffer) THEN WideU64 ELSE NarrowU64) :
       DoAppend("Write_uintVar", VarV(v), Write_uintVar(buffer, v))

Append_vector ==
  /\ CanAppend
  /\ \E v \in (IF empty(buffer) THEN SampleVectors ELSE SamplePayloads) :
       DoAppend("Write_vector", VecV(v), Write_vector(buffer, v))

Extract_uint8 ==
  /\ CanStep
  /\ DoExtract("Read_uint8", "uint8", Read_uint8(buffer))

Extract_uint64 ==
  /\ CanStep
  /\ DoExtract("Read_uint64", "uint64", Read_uint64(buffer))

\* msg.front() on an empty vector is undefined: a stray byte or a fault
Extract_uintVar ==
  /\ CanStep
  /\ \/ /\ ~empty(buffer)
        /\ DoExtract("Read_uintVar", "uintVar", Read_uintVar(buffer, front(buffer)))
     \/ /\ empty(buffer)
        /\ \E g \in GarbageBytes :
             DoExtract("Read_uintVar", "uintVar", Read_uintVar(buffer, g))
     \/ /\ empty(buffer)
        /\ DoExtract("Read_uintVar", "uintVar", Throw(buffer, "crash"))

Extract_vector ==
  /\ CanStep
  /\ \/ /\ ~empty(buffer)
        /\ DoExtract("Read_vector", "vector", Read_vector(buffer, front(buffer)))
     \/ /\ empty(buffer)
        /\ \E g \in GarbageBytes :
             DoExtract("Read_vector", "vector", Read_vector(buffer, g))
     \/ /\ empty(buffer)
        /\ DoExtract("Read_vector", "vector", Throw(buffer, "crash"))

\* a call of a member that is not a stream operator: a peek keeps the
\* pending value, a removal ends it
DoMember(op, arg, r) ==
  /\ buffer' = r.buf
  /\ last' = Call(op, arg, buffer, r, None)
  /\ pending' = IF r.buf = buffer THEN pending ELSE None
  /\ steps' = steps + 1
  /\ UNCHANGED <<name, ncall, sourceCid_lum, tcall>>

\* pop(): the assertion aborts a checked build; without it erase(begin())
\* on an empty vector is undefined
Pop ==
  /\ CanStep
  /\ \/ DoMember("pop", None, pop(buffer))
     \/ /\ empty(buffer)
        /\ DoMember("pop", None, Throw(buffer, "crash"))

Pop_n ==
  /\ CanStep
  /\ \E len \in SampleLens : DoMember("pop_n", LenV(len), pop_n(buffer, len))

Front_n ==
  /\ CanStep
  /\ \E len \in SampleLens : DoMember("front_n", LenV(len), front_n(buffer, len))

Append_message ==
  /\ CanAppend
  /\ empty(buffer)
  /\ \E m \in SampleMessages :
       DoAppend("Write_message", m, Write_message(buffer, m))

Extract_message ==
  /\ CanStep
  /\ \E kind \in MessageKinds :
       DoExtract("Read_message", kind, Read_message(buffer, kind))

Next ==
  \/ Append_uint8
  \/ Append_uint64
  \/ Append_uintVar
  \/ Append_vector
  \/ Extract_uint8
  \/ Extract_uint64
  \/ Extract_uintVar
  \/ Extract_vector
  \/ Append_message
  \/ Extract_message
  \/ Pop
  \/ Pop_n
  \/ Front_n

Spec == Init /\ [][Next]_vars

-----------------------------------------------------------------------------
(* State machine of one Name                                               *)

\* the record of a construction with result r = [err, self]
Constructed(op, args, r) ==
  NameCall(op, NameOf({}, {}), args, r.self, NoFlags, r.err)

\* a Name constructed from a 64-bit value
NameInit ==
  /\ \E value \in SampleWords :
       /\ name = Name_uint64(value)
       /\ ncall = Constructed("Name_uint64", Args(value, 0, NameOf({}, {}), <<>>),
                              [err |-> "ok", self |-> name])
  /\ steps = 0
  /\ buffer = <<>>
  /\ last = Call("construct", None, <<>>, Ret(<<>>, None), None)
  /\ pending = None
  /\ sourceCid_lum = {}
  /\ tcall = NoTransportCall

CanName == steps < MaxNameSteps

\* a member call with result r = [self, ret]
DoName(op, args, r, flags) ==
  /\ name' = r.self
  /\ ncall' = NameCall(op, name, args, r.ret, flags, "ok")
  /\ steps' = steps + 1
  /\ UNCHANGED <<buffer, last, pending, sourceCid_lum, tcall>>

\* another Name is constructed in the place of this one, before any
\* operator is applied
DoConstruct(op, args, r) ==
  /\ steps = 0
  /\ name' = r.self
  /\ ncall' = Constructed(op, args, r)
  /\ UNCHANGED <<buffer, last, pending, steps, sourceCid_lum, tcall>>

Construct_uint64 ==
  \E value \in SampleWords :
       DoConstruct("Name_uint64", Args(value, 0, NameOf({}, {}), <<>>),
                   [err |-> "ok", self |-> Name_uint64(value)])

\* the members are not initialised: they hold what the storage held
Construct_string ==
  \E text \in SampleTexts, stale \in SampleNames :
       DoConstruct("Name_string", Args({}, 0, NameOf({}, {}), text),
                   Name_string(text, stale))

ShiftRight ==
  /\ CanName
  /\ \E k \in SampleShifts :
       DoName("shr", Args({}, k, NameOf({}, {}), <<>>), Name_shr(name, k), NoFlags)

ShiftLeft ==
  /\ CanName
  /\ \E k \in SampleShifts :
       DoName("shl", Args({}, k, NameOf({}, {}), <<>>), Name_shl(name, k), NoFlags)

Add ==
  /\ CanName
  /\ \E v \in SampleOperands :
       DoName("plus", Args(v, 0, NameOf({}, {}), <<>>), Name_plus(name, v), NoFlags)

Subtract ==
  /\ CanName
  /\ \E v \in SampleOperands :
       DoName("minus", Args(v, 0, NameOf({}, {}), <<>>), Name_minus(name, v), NoFlags)

And64 ==
  /\ CanName
  /\ \E v \in SampleOperands :
       DoName("and64", Args(v, 0, NameOf({}, {}), <<>>), Name_and64(name, v), NoFlags)

Or64 ==
  /\ CanName
  /\ \E v \in SampleOperands :
       DoName("or64", Args(v, 0, NameOf({}, {}), <<>>), Name_or64(name, v), NoFlags)

AndName ==
  /\ CanName
  /\ \E other \in SampleNames :
       DoName("and", Args({}, 0, other, <<>>), Name_and(name, other), NoFlags)

OrName ==
  /\ CanName
  /\ \E other \in SampleNames :
       DoName("or", Args({}, 0, other, <<>>), Name_or(name, other), NoFlags)

\* name == other, name != other, name < other, name > other
Compare ==
  /\ CanName
  /\ \E other \in SampleNames :
       DoName("compare", Args({}, 0, other, <<>>), Self(name),
              Flags(Name_eq(name, other), Name_ne(name, other),
                    Name_lt(name, other), Name_gt(name, other), FALSE))

\* Namespace(name, sig_bits).contains(other)
Contains ==
  /\ CanName
  /\ \E other \in SampleNames, sig_bits \in SampleSigBits :
       DoName("contains", Args({}, sig_bits, other, <<>>), Self(name),
              Flags(FALSE, FALSE, FALSE, FALSE,
                    Namespace_contains(NamespaceOf(name, sig_bits), other)))

\* name.to_hex(); text is the text the Name was constructed from, if it was
ToHex ==
  /\ CanName
  /\ name' = name
  /\ ncall' = [NameCall("to_hex", name,
                        Args({}, 0, NameOf({}, {}),
                             IF ncall.op = "Name_string" THEN ncall.text ELSE <<>>),
                        name, NoFlags, "ok")
               EXCEPT !.hex = Name_to_hex(name)]
  /\ steps' = steps + 1
  /\ UNCHANGED <<buffer, last, pending, sourceCid_lum, tcall>>

\* name.data()
Data ==
  /\ CanName
  /\ name' = name
  /\ ncall' = [NameCall("data", name, Args({}, 0, NameOf({}, {}), <<>>), name,
                        NoFlags, "ok")
               EXCEPT !.bytes = Name_data(name)]
  /\ steps' = steps + 1
  /\ UNCHANGED <<buffer, last, pending, sourceCid_lum, tcall>>

\* a Name constructed from bytes, those of name.data() or others; pre is the
\* Name the bytes came from, other what the storage of the new Name held
Construct_vector ==
  /\ CanName
  /\ \E data \in SampleBytes \cup {Name_data(name)},
        stale \in {Name_uint64({}), NameOf(Bits(1), Bits(2))},
        ub \in {"masked", "zero"} :
       /\ name' = Name_vector(data, stale, ub).self
       /\ ncall' = [Constructed("Name_vector", Args({}, 0, stale, <<>>),
                                Name_vector(data, stale, ub))
                    EXCEPT !.bytes = data,
                           !.pre = IF data = Name_data(name) THEN name
                                   ELSE NameOf({}, {})]
  /\ steps' = steps + 1
  /\ UNCHANGED <<buffer, last, pending, sourceCid_lum, tcall>>

\* Namespace(name, sig_bits).contains(Namespace(other, sig))
ContainsNamespace ==
  /\ CanName
  /\ \E other \in SampleBases, sig_bits \in SampleSigBits, sig \in {64, 120} :
       /\ ncall' = [NameCall("contains_ns", name, Args({}, sig_bits, other, <<>>), name,
                             Flags(FALSE, FALSE, FALSE, FALSE,
                                   Namespace_contains_ns(NamespaceOf(name, sig_bits),
                                                         NamespaceOf(other, sig))),
                             "ok")
                    EXCEPT !.sig = sig]
  /\ name' = name
  /\ steps' = steps + 1
  /\ UNCHANGED <<buffer, last, pending, sourceCid_lum, tcall>>

\* A == B, A != B, A < B, A > B for A = Namespace(name, sig_bits) and
\* B = Namespace(other, sig)
CompareNamespace ==
  /\ CanName
  /\ \E other \in SampleBases, sig_bits \in {64, 120}, sig \in {64, 120} :
       /\ ncall' = [NameCall("compare_ns", name, Args({}, sig_bits, other, <<>>), name,
                             Flags(Namespace_eq(NamespaceOf(name, sig_bits), NamespaceOf(other, sig)),
                                   Namespace_ne(NamespaceOf(name, sig_bits), NamespaceOf(other, sig)),
                                   Namespace_lt(NamespaceOf(name, sig_bits), NamespaceOf(other, sig)),
                                   Namespace_gt(NamespaceOf(name, sig_bits), NamespaceOf(other, sig)),
                                   FALSE),
                             "ok")
                    EXCEPT !.sig = sig]
  /\ name' = name
  /\ steps' = steps + 1
  /\ UNCHANGED <<buffer, last, pending, sourceCid_lum, tcall>>

NameNext ==
  \/ Construct_uint64
  \/ Construct_string
  \/ ShiftRight
  \/ ShiftLeft
  \/ Add
  \/ Subtract
  \/ And64
  \/ Or64
  \/ AndName
  \/ OrName
  \/ Compare
  \/ Contains
  \/ ToHex
  \/ Data
  \/ Construct_vector
  \/ ContainsNamespace
  \/ CompareNamespace

NameSpec == NameInit /\ [][NameNext]_vars

-----------------------------------------------------------------------------
(* State machine of one QuicRTransport (src/unnamed/part_003).             *)
(* sourceCid_lum is the lookup map as the set of the records it points to; *)
(* connect() and disconnect() are pure virtual and maintain the map: a     *)
(* connection attempt succeeds or times out, a disconnect erases the       *)
(* record or marks it.                                                     *)

\* source connection ids
SampleCids == {1, 2, 3}

\* struct sourceCid { sCid, connected, seq }, without the sequence index
SourceCidOf(sCid, connected) == [sCid |-> sCid, connected |-> connected]

\* QuicRTransport::isConnected: the value returned for a known sCid is the
\* address of the connected member converted to bool, true as the address
\* of a member is not null
isConnected(lum, sCid) ==
  IF \E e \in lum : e.sCid = sCid
  THEN \A e \in { f \in lum : f.sCid = sCid } : <<"&", e.sCid, "connected">> # <<>>
  ELSE FALSE

\* QuicRTransport(TransportConfig): the maps are empty
TransportInit ==
  /\ sourceCid_lum = {}
  /\ tcall = NoTransportCall
  /\ buffer = <<>>
  /\ last = Call("construct", None, <<>>, Ret(<<>>, None), None)
  /\ pending = None
  /\ steps = 0
  /\ name = Name_uint64({})
  /\ ncall = NoCall

\* connect(sCid, dCid): the record of sCid is there afterwards, connected
\* or, after a timeout, failed
Connect ==
  /\ \E sCid \in SampleCids, connected \in BOOLEAN :
       /\ sourceCid_lum' = { e \in sourceCid_lum : e.sCid # sCid }
                             \cup {SourceCidOf(sCid, connected)}
       /\ tcall' = TransportCall("connect", sCid, connected)
  /\ UNCHANGED <<buffer, last, pending, steps, name, ncall>>

\* disconnect(sCid): the record of sCid is erased, or kept as not connected
Disconnect ==
  /\ \E sCid \in { e.sCid : e \in sourceCid_lum }, erased \in BOOLEAN :
       /\ sourceCid_lum' = { e \in sourceCid_lum : e.sCid # sCid }
                             \cup (IF erased THEN {} ELSE {SourceCidOf(sCid, FALSE)})
       /\ tcall' = TransportCall("disconnect", sCid, TRUE)
  /\ UNCHANGED <<buffer, last, pending, steps, name, ncall>>

IsConnected ==
  /\ \E sCid \in SampleCids :
       tcall' = TransportCall("isConnected", sCid, isConnected(sourceCid_lum, sCid))
  /\ UNCHANGED <<sourceCid_lum, buffer, last, pending, steps, name, ncall>>

TransportNext ==
  \/ Connect
  \/ Disconnect
  \/ IsConnected

TransportSpec == TransportInit /\ [][TransportNext]_vars

TypeOK ==
  /\ steps \in 0..MaxSteps
  /\ last.err \in {"ok", "empty", "zero_size", "out_of_range", "magnitude",
                  "crash", "assert"}
  /\ BLen(buffer) >= 0

-----------------------------------------------------------------------------
(* Properties                                                              *)

\* the bytes the last call added behind those already present
Added == BDrop(buffer, BLen(last.pre))

\* the buffer is its contents before the call followed by more bytes
TailAppend ==
  /\ BLen(buffer) >= BLen(last.pre)
  /\ BTake(buffer, BLen(last.pre)) = last.pre

\* the buffer is its contents before the call less some leading bytes
HeadRemoved ==
  /\ BLen(buffer) <= BLen(last.pre)
  /\ BDrop(last.pre, BLen(last.pre) - BLen(buffer)) = buffer

\* the integer written by at most 8 bytes, most significant byte first
BEBits(a) ==
  UNION { { j + 8 * (BLen(a) - i) : j \in Bits(BAt(a, i)) } : i \in 1..BLen(a) }

\* the value is below 2^n
Below(w, n) == w \subseteq 0 .. (n - 1)

\* C1: a VarInt below 2^61 appended to an empty buffer and extracted again
\* comes back unchanged and leaves the buffer empty.
C1_VarIntRoundTrip ==
  (last.op = "Read_uintVar" /\ last.expect.type = "uintVar"
     /\ Below(last.expect.w, 61))
  => (last.err = "ok" /\ last.val = last.expect /\ buffer = <<>>)

\* the number of bytes and the payload width C2 gives for a value
C2_TierBytes(w) ==
  IF Below(w, 7) THEN 1 ELSE IF Below(w, 14) THEN 2
  ELSE IF Below(w, 29) THEN 4 ELSE 8

C2_PayloadWidth(n) == IF n = 1 THEN 7 ELSE IF n = 2 THEN 14 ELSE IF n = 4 THEN 29 ELSE 60

\* the one bits of the tag 0, 10, 110, 1110 at the top of n bytes
C2_TagBits(n) ==
  IF n = 1 THEN {} ELSE IF n = 2 THEN {15}
  ELSE IF n = 4 THEN {31, 30} ELSE {63, 62, 61}

\* C2: a VarInt below 2^61 is appended as 1, 2, 4 or 8 bytes by magnitude,
\* the first byte starts with the tag 0, 10, 110 or 1110, and the remaining
\* bits, most significant byte first, are the value.
C2_VarIntLayout ==
  (last.op = "Write_uintVar" /\ Below(last.arg.w, 61))
  => LET n == C2_TierBytes(last.arg.w)
         width == C2_PayloadWidth(n)
         be == BEBits(Added)
     IN  /\ last.err = "ok"
         /\ TailAppend
         /\ BLen(Added) = n
         /\ be \ (0 .. (width - 1)) = C2_TagBits(n)
         /\ be \cap (0 .. (width - 1)) = last.arg.w

\* C3: appending a VarInt of 2^61 or more fails and leaves the buffer as it
\* was.
C3_MagnitudeRejected ==
  (last.op = "Write_uintVar" /\ ~Below(last.arg.w, 61))
  => (last.err = "magnitude" /\ buffer = last.pre)

C3_Witness ==
  /\ last.op = "Write_uintVar"
  /\ last.arg.w = {61}
  /\ last.pre # <<>>
  /\ last.err = "magnitude"
  /\ buffer = last.pre

\* the values C4 says survive a round trip
C4_Valid(x) ==
  \/ x.type \in {"uint8", "uint64"}
  \/ x.type = "uintVar" /\ Below(x.w, 60)
  \/ x.type = "vector" /\ x.v # <<>>

\* C4: appends add bytes behind the bytes present and change none of them,
\* extractions remove bytes from the head only, and a typed value appended
\* to an empty buffer comes back unchanged from the extraction of its type,
\* leaving the buffer empty.
C4_Fifo ==
  /\ last.op \in {"Write_uint8", "Write_uint64", "Write_uintVar", "Write_vector"}
       => TailAppend
  /\ last.op \in {"Read_uint8", "Read_uint64", "Read_uintVar", "Read_vector"}
       => HeadRemoved
  /\ (last.op \in {"Read_uint8", "Read_uint64", "Read_uintVar", "Read_vector"}
        /\ last.expect.type # "none" /\ C4_Valid(last.expect))
       => (last.err = "ok" /\ last.val = last.expect /\ buffer = <<>>)

\* the decoding of the VarInt at the head of a non-empty byte sequence
LengthPrefix(pre) == Read_uintVar(pre, front(pre))

\* the declared length is at most the number of bytes behind the prefix
Fits(len, rest) == Below(len, 31) /\ ToNat(len) <= BLen(rest)

\* the extraction returned the len bytes behind the prefix and removed them
Extracted(rest, len) ==
  /\ last.err = "ok"
  /\ last.val = VecV(BTake(rest, len))
  /\ buffer = BDrop(rest, len)

\* with p the decoded prefix: what C5, C6 and C7 say of the extraction
C5_Case(p) ==
  (p.err = "ok" /\ p.val.w # {} /\ Fits(p.val.w, p.buf))
  => Extracted(p.buf, ToNat(p.val.w))

C6_Case(p) ==
  (p.err = "ok" /\ p.val.w # {} /\ ~Fits(p.val.w, p.buf))
  => (last.err = "out_of_range" /\ last.val = None)

C7_Case(p) ==
  (p.err = "ok" /\ p.val.w = {})
  => (last.err = "zero_size" /\ last.val = None)

\* C5: a byte-vector extraction whose prefix declares L >= 1, L at most the
\* bytes behind the prefix, returns the next L bytes and removes the prefix
\* and those L bytes.
C5_VectorExtract ==
  (last.op = "Read_vector" /\ last.pre # <<>>) => C5_Case(LengthPrefix(last.pre))

\* C6: a byte-vector extraction whose prefix declares more bytes than remain
\* behind the prefix fails with the out-of-range error and yields no vector.
C6_VectorBounds ==
  (last.op = "Read_vector" /\ last.pre # <<>>) => C6_Case(LengthPrefix(last.pre))

\* C7: a byte-vector extraction whose prefix decodes to zero fails with the
\* zero-length error and yields no vector.
C7_ZeroLength ==
  (last.op = "Read_vector" /\ last.pre # <<>>) => C7_Case(LengthPrefix(last.pre))

C7_Witness ==
  /\ last.op = "Read_vector"
  /\ last.pre = BOf(<<128, 0, 5>>)
  /\ last.err = "zero_size"
  /\ last.val = None

\* C8: a message encoded into an empty buffer decodes to an equal message,
\* also when a byte-vector field of it is empty.
C8_MessageRoundTrip ==
  /\ last.op = "Write_message" => last.err = "ok"
  /\ (last.op = "Read_message" /\ last.expect.type \in MessageKinds)
       => (last.err = "ok" /\ last.val = last.expect)

TierLength(first) ==
  IF first < 128 THEN 1 ELSE IF first < 192 THEN 2
  ELSE IF first < 224 THEN 4 ELSE 8

\* C10: a uint64 or VarInt extraction from a non-empty buffer holding fewer
\* bytes than the width needed fails with an error and yields no value.
C10_ShortDecode ==
  /\ (last.op = "Read_uint64" /\ last.pre # <<>> /\ BLen(last.pre) < 8)
       => (last.err \notin {"ok", "crash"} /\ last.val = None)
  /\ (last.op = "Read_uintVar" /\ last.pre # <<>>
        /\ BLen(last.pre) < TierLength(front(last.pre)))
       => (last.err \notin {"ok", "crash"} /\ last.val = None)

C10_Witness ==
  /\ last.op = "Read_uintVar"
  /\ last.pre = BOf(<<192, 1, 2>>)
  /\ last.err = "empty"
  /\ last.val = None

\* the typed extractions
Extractions == {"Read_uint8", "Read_uint64", "Read_uintVar", "Read_vector"}

\* C11: every typed extraction attempted on an empty buffer fails with the
\* buffer-empty error: no fault, no other error, and the buffer stays empty.
C11_EmptyExtraction ==
  (last.op \in Extractions /\ last.pre = <<>>)
  => (last.err = "empty" /\ last.val = None /\ buffer = <<>>)

\* C12: pop(n) on a buffer of len bytes fails with the out-of-range error
\* and changes nothing when n > len, and otherwise removes exactly the
\* first n bytes, the other len - n bytes keeping their order and values.
C12_PopN ==
  last.op = "pop_n"
  => IF last.arg.n > BLen(last.pre)
     THEN last.err = "out_of_range" /\ buffer = last.pre
     ELSE /\ last.err = "ok"
          /\ BLen(buffer) = BLen(last.pre) - last.arg.n
          /\ BCat(BTake(last.pre, last.arg.n), buffer) = last.pre

C12_Witness ==
  /\ last.op = "pop_n"
  /\ last.arg.n = 3
  /\ last.pre = BOf(<<2, 10, 20, 30>>)
  /\ buffer = BOf(<<30>>)

\* C13: front(n) never changes the buffer; for n <= len it returns the
\* first n bytes, for n > len it fails with the out-of-range error of pop(n).
C13_Peek ==
  last.op = "front_n"
  => /\ buffer = last.pre
     /\ IF last.arg.n > BLen(last.pre)
        THEN last.err = "out_of_range" /\ last.val = None
        ELSE /\ last.err = "ok"
             /\ last.val.type = "vector"
             /\ BLen(last.val.v) = last.arg.n
             /\ BCat(last.val.v, BDrop(last.pre, last.arg.n)) = last.pre

C13_Witness ==
  /\ last.op = "front_n"
  /\ last.arg.n = 3
  /\ last.pre = BOf(<<2, 10, 20, 30>>)
  /\ last.val = VecV(BOf(<<2, 10, 20>>))
  /\ buffer = last.pre

-----------------------------------------------------------------------------
(* Properties of Name and Namespace                                        *)

\* the 128-bit value of a Name: hi holds bits 64..127, low bits 0..63
Value128(n) == n.low \cup { i + WordBits : i \in n.hi }

\* (a.hi, a.lo) is lexicographically less than (b.hi, b.lo)
LexLess(a, b) == Less(a.hi, b.hi) \/ (a.hi = b.hi /\ Less(a.low, b.low))

\* C14: a == b holds iff both words are equal, and a < b holds iff
\* (a.hi, a.lo) is lexicographically less than (b.hi, b.lo).
C14_NameOrder ==
  ncall.op = "compare"
  => /\ ncall.flags.eq <=> (ncall.pre.hi = ncall.other.hi /\ ncall.pre.low = ncall.other.low)
     /\ ncall.flags.lt <=> LexLess(ncall.pre, ncall.other)

\* the top k bits of a 128-bit value
TopBits(v, k) == { i \in v : i >= NameBits - k }

\* C15: Namespace(base, sig_bits).contains(n) holds iff the top sig_bits
\* bits of n equal the top sig_bits bits of base, for sig_bits in 0..128.
C15_Contains ==
  (ncall.op = "contains" /\ ncall.k \in 0..NameBits)
  => (ncall.flags.has <=>
        TopBits(Value128(ncall.pre), ncall.k) = TopBits(Value128(ncall.other), ncall.k))

\* floor(v / 2^k) and (v * 2^k) mod 2^128
Shifted_Right(v, k) == { i - k : i \in { j \in v : j >= k } }

Shifted_Left(v, k) == { i + k : i \in { j \in v : j + k < NameBits } }

\* C16: a >> n is floor(a / 2^n), a << n is (a * 2^n) mod 2^128, and
\* (a << k) >> k is a with its top k bits cleared.
C16_Shifts ==
  /\ ncall.op = "shr"
       => Value128(ncall.ret) = Shifted_Right(Value128(ncall.pre), ncall.k)
  /\ ncall.op = "shl"
       => Value128(ncall.ret) = Shifted_Left(Value128(ncall.pre), ncall.k)
  /\ ncall.op = "shl"
       => Value128(Name_shr(ncall.ret, ncall.k).ret)
            = { i \in Value128(ncall.pre) : i < NameBits - ncall.k }

\* the j-th 16-bit limb of a value, and the bits of a limb put in place
Limb(v, j) == ToNat({ i - 16 * j : i \in { b \in v : b \div 16 = j } })

LimbBits(n, j) == { i + 16 * j : i \in Bits(n) }

\* (x + y) mod 2^128 and (x - y) mod 2^128 by integer arithmetic on limbs
RECURSIVE LimbSum(_, _, _, _)
LimbSum(x, y, j, carry) ==
  IF j = NameBits \div 16 THEN {}
  ELSE LET t == Limb(x, j) + Limb(y, j) + carry
       IN  LimbBits(t % Pow16, j) \cup LimbSum(x, y, j + 1, t \div Pow16)

RECURSIVE LimbDiff(_, _, _, _)
LimbDiff(x, y, j, borrow) ==
  IF j = NameBits \div 16 THEN {}
  ELSE LET t == Limb(x, j) - Limb(y, j) - borrow
       IN  LimbBits(t % Pow16, j) \cup LimbDiff(x, y, j + 1, IF t < 0 THEN 1 ELSE 0)

\* C17: a + v is (a + v) mod 2^128 and a - v is (a - v) mod 2^128 on the
\* whole 128-bit value, with carry and borrow across the words.
C17_Arithmetic ==
  /\ ncall.op = "plus"
       => Value128(ncall.ret) = LimbSum(Value128(ncall.pre), ncall.w, 0, 0)
  /\ ncall.op = "minus"
       => Value128(ncall.ret) = LimbDiff(Value128(ncall.pre), ncall.w, 0, 0)

C17_Witness ==
  /\ ncall.op = "plus"
  /\ ncall.pre = Name_uint64(Ones(64))
  /\ ncall.w = Bits(1)
  /\ ncall.ret = NameOf(Bits(1), {})

\* C18: a + v, a - v, a << n, a >> n, a & x and a | x leave a as it was.
C18_OperandUnchanged ==
  ncall.op \in {"plus", "minus", "shl", "shr", "and64", "or64", "and", "or"}
  => (name.hi = ncall.pre.hi /\ name.low = ncall.pre.low)

\* the hexadecimal digits, by value
LowerHex == <<"0", "1", "2", "3", "4", "5", "6", "7", "8", "9", "a", "b", "c", "d", "e", "f">>

UpperHex == <<"0", "1", "2", "3", "4", "5", "6", "7", "8", "9", "A", "B", "C", "D", "E", "F">>

IsHex(c) == \E v \in 1..16 : c = LowerHex[v] \/ c = UpperHex[v]

HexDigitValue(c) == (CHOOSE v \in 1..16 : c = LowerHex[v] \/ c = UpperHex[v]) - 1

\* the text without its optional 0x
StripPrefix(text) ==
  IF Len(text) >= 2 /\ text[1] = "0" /\ text[2] = "x"
  THEN SubSeq(text, 3, Len(text)) ELSE text

AllHex(digits) == \A i \in 1..Len(digits) : IsHex(digits[i])

\* C19: constructing a Name from a text fails with a format error when the
\* text without its optional 0x is not exactly 32 hexadecimal characters.
C19_HexFormat ==
  (ncall.op = "Name_string"
     /\ ~(Len(StripPrefix(ncall.text)) = 32 /\ AllHex(StripPrefix(ncall.text))))
  => ncall.err = "format"

\* the value hexadecimal digits denote
HexValue(digits) ==
  UNION { { b + 4 * (Len(digits) - i) : b \in Bits(HexDigitValue(digits[i])) } :
          i \in 1..Len(digits) }

\* C20: Name(v) has hi = 0 and lo = v, and the Name constructed from the
\* unpadded hexadecimal text of a 64-bit value equals Name(v).
C20_FromUint64 ==
  /\ ncall.op = "Name_uint64" => (name.hi = {} /\ name.low = ncall.w)
  /\ (ncall.op = "Name_string" /\ StripPrefix(ncall.text) # <<>>
        /\ Len(StripPrefix(ncall.text)) <= 16 /\ AllHex(StripPrefix(ncall.text)))
       => (ncall.err = "ok"
           /\ Name_eq(name, Name_uint64(HexValue(StripPrefix(ncall.text)))))

\* the lowercase digit of a hexadecimal character
Lowered(c) == LowerHex[HexDigitValue(c) + 1]

\* C21: for a text s of 32 hexadecimal digits, with or without 0x and in
\* any letter case, Name(s).to_hex() is s with a 0x prefix and lowercase
\* digits.
C21_HexRoundTrip ==
  (ncall.op = "to_hex"
     /\ Len(StripPrefix(ncall.text)) = 32 /\ AllHex(StripPrefix(ncall.text)))
  => ncall.hex = <<"0", "x">> \o [i \in 1..32 |-> Lowered(StripPrefix(ncall.text)[i])]

\* C22: to_hex() returns 34 characters: 0x, the 16 zero-padded lowercase
\* hexadecimal digits of the high word, then the 16 of the low word.
C22_ToHexFormat ==
  ncall.op = "to_hex"
  => /\ Len(ncall.hex) = 34
     /\ ncall.hex[1] = "0" /\ ncall.hex[2] = "x"
     /\ \A i \in 3..34 : \E v \in 1..16 : ncall.hex[i] = LowerHex[v]
     /\ HexValue(SubSeq(ncall.hex, 3, 18)) = ncall.pre.hi
     /\ HexValue(SubSeq(ncall.hex, 19, 34)) = ncall.pre.low

C22_Witness ==
  /\ ncall.op = "to_hex"
  /\ ncall.pre = NameOf(Bits(1), Bits(2))
  /\ ncall.hex = <<"0", "x">> \o Chars("0", 15) \o <<"1">> \o Chars("0", 15) \o <<"2">>

\* C23: n.data() returns 16 bytes, and the Name constructed from those
\* bytes equals n.
C23_BytesRoundTrip ==
  /\ ncall.op = "data" => Len(ncall.bytes) = 16
  /\ (ncall.op = "Name_vector" /\ ncall.bytes = Name_data(ncall.pre))
       => Name_eq(name, ncall.pre)

\* the bits byte i of a sequence contributes at position 8 * (i - from)
ByteSum(bytes, from, to) ==
  UNION { { b + 8 * (i - from) : b \in Bits(bytes[i + 1]) } :
          i \in { j \in from .. (Len(bytes) - 1) : j < to } }

\* C24: the Name constructed from at most 16 bytes has the low word
\* sum of byte[i] * 2^(8 i) over i < min(8, len) and the high word
\* sum of byte[i] * 2^(8 (i - 8)) over 8 <= i < len.
C24_FromBytes ==
  (ncall.op = "Name_vector" /\ Len(ncall.bytes) <= 16)
  => /\ name.low = ByteSum(ncall.bytes, 0, 8)
     /\ name.hi = ByteSum(ncall.bytes, 8, 16)

\* C25: a & b has the high word a.hi AND b.hi and the low word a.lo AND
\* b.lo; a | b has the high word a.hi OR b.hi and the low word a.lo OR b.lo.
C25_Bitwise ==
  /\ ncall.op = "and"
       => /\ ncall.ret.hi = { i \in 0 .. (WordBits - 1) : i \in ncall.pre.hi /\ i \in ncall.other.hi }
          /\ ncall.ret.low = { i \in 0 .. (WordBits - 1) : i \in ncall.pre.low /\ i \in ncall.other.low }
  /\ ncall.op = "or"
       => /\ ncall.ret.hi = { i \in 0 .. (WordBits - 1) : i \in ncall.pre.hi \/ i \in ncall.other.hi }
          /\ ncall.ret.low = { i \in 0 .. (WordBits - 1) : i \in ncall.pre.low \/ i \in ncall.other.low }

C25_Witness ==
  /\ ncall.op = "or"
  /\ ncall.pre = NameOf(Bits(1), Bits(2))
  /\ ncall.other = NameOf(Bits(2), Bits(1))
  /\ ncall.ret = NameOf(Bits(3), Bits(3))

\* C26: A.contains(B) for a Namespace B is A.contains(B.base), whatever
\* the sig_bits of B.
C26_ContainsNamespace ==
  ncall.op = "contains_ns"
  => (ncall.flags.has
        <=> Namespace_contains(NamespaceOf(ncall.pre, ncall.k), ncall.other))

C26_Witness ==
  /\ ncall.op = "contains_ns"
  /\ ncall.sig < ncall.k
  /\ ncall.pre \in SampleBases
  /\ ncall.flags.has

\* C27: A == B iff the bases and the sig_bits are equal; A < B iff
\* A.base is lexicographically less than B.base, and A > B iff it is
\* greater, whatever the sig_bits.
C27_NamespaceOrder ==
  ncall.op = "compare_ns"
  => /\ ncall.flags.eq <=> (ncall.pre = ncall.other /\ ncall.k = ncall.sig)
     /\ ncall.flags.lt <=> LexLess(ncall.pre, ncall.other)
     /\ ncall.flags.gt <=> LexLess(ncall.other, ncall.pre)

\* C28: isConnected(sCid) is true iff sCid is in the source-CID lookup map
\* and the connected flag of its record is true; it is false for an unknown
\* sCid and for a known sCid whose flag is false.
C28_IsConnected ==
  tcall.op = "isConnected"
  => (tcall.ret <=> \E e \in sourceCid_lum : e.sCid = tcall.sCid /\ e.connected)

\* C29: exactly one of a < b, a == b, a > b holds, and a < b holds iff
\* b > a.
C29_TotalOrder ==
  ncall.op = "compare"
  => /\ \/ (ncall.flags.lt /\ ~ncall.flags.eq /\ ~ncall.flags.gt)
        \/ (~ncall.flags.lt /\ ncall.flags.eq /\ ~ncall.flags.gt)
        \/ (~ncall.flags.lt /\ ~ncall.flags.eq /\ ncall.flags.gt)
     /\ ncall.flags.lt <=> Name_gt(ncall.other, ncall.pre)

\* C30: a failed multi-byte extraction is not rolled back: a uint64
\* extraction from k < 8 bytes fails and leaves the buffer empty, and a
\* byte-vector extraction that fails on a zero or too large declared length
\* has removed the length prefix and left the bytes behind it.
C30_NoRollback ==
  /\ (last.op = "Read_uint64" /\ BLen(last.pre) < 8)
       => (last.err = "empty" /\ buffer = <<>>)
  /\ (last.op = "Read_vector" /\ last.pre # <<>>
        /\ last.err \in {"zero_size", "out_of_range"})
       => buffer = BDrop(last.pre, TierLength(front(last.pre)))

C30_Witness ==
  /\ last.op = "Read_vector"
  /\ last.err = "out_of_range"
  /\ buffer # <<>>
  /\ BLen(buffer) < BLen(last.pre)

====
